---------------------------- MODULE Spec2Model ----------------------------
(***************************************************************************)
(* Model of the configuration language translator (config_lang.py) and of  *)
(* its command line entry point (main.py).                                 *)
(*                                                                         *)
(* A source text is a sequence of one-character strings.  The lexer is     *)
(* translated operator by operator (Lexer._peek, _advance,                 *)
(* _skip_ws_and_comments, _next_token); one step of the state machine is   *)
(* one iteration of the loop of Lexer.tokens.  The recursive-descent       *)
(* parser is translated to an explicit stack of frames, one frame per      *)
(* active _parse_const_declaration / _parse_list / _parse_dict call, and   *)
(* one step per call of _parse_expr or per return of a value to a frame.   *)
(***************************************************************************)
EXTENDS Integers, Sequences, FiniteSets, TLC

(***************************************************************************)
(* Characters                                                              *)
(***************************************************************************)
Lower ==
    {"a", "b", "c", "d", "e", "f", "g", "h", "i", "j", "k", "l", "m",
     "n", "o", "p", "q", "r", "s", "t", "u", "v", "w", "x", "y", "z"}

Digits07 == {"0", "1", "2", "3", "4", "5", "6", "7"}

Digits09 == Digits07 \cup {"8", "9"}

\* str.isspace() on the characters the inputs use
Space == {" ", "\n", "\t", "\r"}

\* characters the identifier loop consumes
IdentChars == Lower \cup Digits09 \cup {"_"}

\* a plausible slip: the number loop takes every decimal digit
GreedySet_decimal == {"0", "o", "O"} \cup Digits09

\* characters the number loop consumes
GreedySet == {"0", "o", "O"} \cup Digits07

\* the second character of a valid octal literal
Markers == {"o", "O", "0"}

KEYWORDS == {<<"l", "i", "s", "t">>, <<"b", "e", "g", "i", "n">>, <<"e", "n", "d">>}

Single(ch) ==
    CASE ch = "(" -> "LPAREN"
      [] ch = ")" -> "RPAREN"
      [] ch = "," -> "COMMA"
      [] ch = ";" -> "SEMICOLON"
      [] ch = "=" -> "EQUAL"
      [] OTHER -> ""

DigitVal(d) ==
    CASE d = "0" -> 0 [] d = "1" -> 1 [] d = "2" -> 2 [] d = "3" -> 3
      [] d = "4" -> 4 [] d = "5" -> 5 [] d = "6" -> 6 [] d = "7" -> 7

(***************************************************************************)
(* Tokens and errors                                                       *)
(***************************************************************************)
Token(kind, value, line, col) ==
    [kind |-> kind, value |-> value, line |-> line, col |-> col]

NoErr == [kind |-> "none"]

\* An exception: its class, its message (a tag for the message template)
\* and the values the template interpolates.
\* exp is the token kind or value an _expect call asked for, found the kind
\* of the token it met, what the lexeme, name or key the message quotes.
Error(kind, msg, exp, found, what, line, col) ==
    [kind |-> kind, msg |-> msg, exp |-> exp, found |-> found, what |-> what,
     line |-> line, col |-> col]

LexError(msg, what, line, col) == Error("LexError", msg, "", "", what, line, col)

ParseError(msg, exp, found, what, line, col) ==
    Error("ParseError", msg, exp, found, what, line, col)

(***************************************************************************)
(* Lexer                                                                   *)
(***************************************************************************)
\* A cursor is the triple (pos, line, col) of a Lexer; pos counts from 0.
Cursor(p, l, c) == [pos |-> p, line |-> l, col |-> c]

LexerInit == Cursor(0, 1, 1)

Peek(txt, cur, n) ==
    IF cur.pos + n < Len(txt) THEN txt[cur.pos + n + 1] ELSE ""

RECURSIVE Advance(_, _, _)
Advance(txt, cur, n) ==
    IF n = 0 \/ cur.pos >= Len(txt)
    THEN cur
    ELSE Advance(txt,
                 IF txt[cur.pos + 1] = "\n"
                 THEN Cursor(cur.pos + 1, cur.line + 1, 1)
                 ELSE Cursor(cur.pos + 1, cur.line, cur.col + 1),
                 n - 1)

RECURSIVE SkipSpaces(_, _)
SkipSpaces(txt, cur) ==
    IF Peek(txt, cur, 0) \in Space
    THEN SkipSpaces(txt, Advance(txt, cur, 1))
    ELSE cur

\* the test for the opening of a comment
OpensComment(txt, cur) ==
    Peek(txt, cur, 0) = "{" /\ Peek(txt, cur, 1) = "{" /\ Peek(txt, cur, 2) = "!"

\* a plausible slip: comments nest
RECURSIVE ScanNested(_, _, _)
ScanNested(txt, cur, depth) ==
    IF Peek(txt, cur, 0) = ""
    THEN [closed |-> FALSE, cur |-> cur]
    ELSE IF Peek(txt, cur, 0) = "}" /\ Peek(txt, cur, 1) = "}"
         THEN IF depth = 1
              THEN [closed |-> TRUE, cur |-> Advance(txt, cur, 2)]
              ELSE ScanNested(txt, Advance(txt, cur, 2), depth - 1)
         ELSE IF OpensComment(txt, cur)
              THEN ScanNested(txt, Advance(txt, cur, 3), depth + 1)
              ELSE ScanNested(txt, Advance(txt, cur, 1), depth)

ScanComment_nested(txt, cur) == ScanNested(txt, cur, 1)

\* a plausible slip: the end of the input closes a comment
RECURSIVE ScanComment_eof(_, _)
ScanComment_eof(txt, cur) ==
    IF Peek(txt, cur, 0) = ""
    THEN [closed |-> TRUE, cur |-> cur]
    ELSE IF Peek(txt, cur, 0) = "}" /\ Peek(txt, cur, 1) = "}"
         THEN [closed |-> TRUE, cur |-> Advance(txt, cur, 2)]
         ELSE ScanComment_eof(txt, Advance(txt, cur, 1))

\* the inner loop of _skip_ws_and_comments: the search for the closing braces
RECURSIVE ScanComment(_, _)
ScanComment(txt, cur) ==
    IF Peek(txt, cur, 0) = ""
    THEN [closed |-> FALSE, cur |-> cur]
    ELSE IF Peek(txt, cur, 0) = "}" /\ Peek(txt, cur, 1) = "}"
         THEN [closed |-> TRUE, cur |-> Advance(txt, cur, 2)]
         ELSE ScanComment(txt, Advance(txt, cur, 1))

\* spans: the comments skipped so far, as <<first, last>> positions
\* (counting from 1) of the opening brace and of the last closing brace
RECURSIVE SkipWsAndComments(_, _, _)
SkipWsAndComments(txt, cur, spans) ==
    LET c1 == SkipSpaces(txt, cur)
    IN  IF OpensComment(txt, c1)
        THEN LET r == ScanComment(txt, Advance(txt, c1, 3))
             IN  IF r.closed
                 THEN SkipWsAndComments(txt, r.cur,
                                        Append(spans, <<c1.pos + 1, r.cur.pos>>))
                 ELSE [cur |-> r.cur, spans |-> spans,
                       err |-> LexError("unterminated comment", <<>>,
                                        c1.line, c1.col)]
        ELSE [cur |-> c1, spans |-> spans, err |-> NoErr]

\* the scanning loops of _next_token: consume while the character is in set
RECURSIVE ScanWhile(_, _, _, _)
ScanWhile(txt, cur, set, acc) ==
    IF Peek(txt, cur, 0) \in set
    THEN ScanWhile(txt, Advance(txt, cur, 1), set, Append(acc, Peek(txt, cur, 0)))
    ELSE [cur |-> cur, lexeme |-> acc]

\* a plausible slip: the length test admits the two-character lexemes
NumberCheck_short(value) ==
    IF value = <<"0">>
    THEN "ok"
    ELSE IF Len(value) >= 2 /\ value[1] = "0" /\ value[2] \in Markers
         THEN IF \E i \in 3..Len(value) : value[i] \notin Digits07
              THEN "bad octal"
              ELSE "ok"
         ELSE "bad shape"

\* the validation of a greedily scanned number lexeme
NumberCheck(value) ==
    IF value = <<"0">>
    THEN "ok"
    ELSE IF Len(value) >= 3 /\ value[1] = "0" /\ value[2] \in Markers
         THEN IF \E i \in 3..Len(value) : value[i] \notin Digits07
              THEN "bad octal"
              ELSE "ok"
         ELSE "bad shape"

\* The result of one _next_token call: tok is <<t>> for a returned token and
\* <<>> for None or an exception; start is the position the token scan began.
LexResult(tok, cur, err, spans, start) ==
    [tok |-> tok, cur |-> cur, err |-> err, spans |-> spans, start |-> start]

NextToken(txt, cur0) ==
    LET sk == SkipWsAndComments(txt, cur0, <<>>)
        cur == sk.cur
        ch == Peek(txt, cur, 0)
    IN  IF sk.err # NoErr
        THEN LexResult(<<>>, cur, sk.err, sk.spans, cur.pos)
        ELSE IF ch = ""
        THEN LexResult(<<>>, cur, NoErr, sk.spans, cur.pos)
        ELSE IF ch \in Lower
        THEN LET s == ScanWhile(txt, cur, IdentChars, <<>>)
             IN  LexResult(<<Token(IF s.lexeme \in KEYWORDS THEN "KW" ELSE "IDENT",
                                   s.lexeme, cur.line, cur.col)>>,
                           s.cur, NoErr, sk.spans, cur.pos)
        ELSE IF ch = "0"
        THEN LET s == ScanWhile(txt, cur, GreedySet, <<>>)
                 chk == NumberCheck(s.lexeme)
             IN  IF chk = "ok"
                 THEN LexResult(<<Token("NUMBER", s.lexeme, cur.line, cur.col)>>,
                                s.cur, NoErr, sk.spans, cur.pos)
                 ELSE LexResult(<<>>, s.cur,
                                LexError(chk, s.lexeme, cur.line, cur.col),
                                sk.spans, cur.pos)
        ELSE IF Single(ch) # ""
        THEN LexResult(<<Token(Single(ch), <<ch>>, cur.line, cur.col)>>,
                       Advance(txt, cur, 1), NoErr, sk.spans, cur.pos)
        ELSE IF ch = ":" /\ Peek(txt, cur, 1) = "="
        THEN LexResult(<<Token("ASSIGN", <<":", "=">>, cur.line, cur.col)>>,
                       Advance(txt, cur, 2), NoErr, sk.spans, cur.pos)
        ELSE LexResult(<<>>, cur,
                       LexError("unexpected character", <<ch>>, cur.line, cur.col),
                       sk.spans, cur.pos)

(***************************************************************************)
(* Values and Python dicts                                                 *)
(***************************************************************************)
IntV(n) == [t |-> "int", n |-> n]

ListV(items) == [t |-> "list", items |-> items]

\* A dict keeps insertion order: a sequence of entries with distinct keys.
DictV(entries) == [t |-> "dict", entries |-> entries]

Entry(key, v) == [key |-> key, val |-> v]

Keys(d) == [i \in 1..Len(d) |-> d[i].key]

\* key in d
DictHas(d, key) == \E i \in 1..Len(d) : d[i].key = key

\* d[key]
DictGet(d, key) == d[CHOOSE i \in 1..Len(d) : d[i].key = key].val

\* a plausible slip: a new key goes first
DictSet_front(d, key, v) ==
    IF DictHas(d, key)
    THEN [i \in 1..Len(d) |-> IF d[i].key = key THEN Entry(key, v) ELSE d[i]]
    ELSE <<Entry(key, v)>> \o d

\* d[key] = v: a new key goes last, an existing key keeps its place
DictSet(d, key, v) ==
    IF DictHas(d, key)
    THEN [i \in 1..Len(d) |-> IF d[i].key = key THEN Entry(key, v) ELSE d[i]]
    ELSE Append(d, Entry(key, v))

(***************************************************************************)
(* Parser                                                                  *)
(***************************************************************************)
\* a plausible slip: the digits are read in base 10
RECURSIVE IntBase10(_, _)
IntBase10(digits, acc) ==
    IF digits = <<>>
    THEN acc
    ELSE IntBase10(Tail(digits), acc * 10 + DigitVal(Head(digits)))

\* int(digits, 8), digit by digit from the left
RECURSIVE IntBase8(_, _)
IntBase8(digits, acc) ==
    IF digits = <<>>
    THEN acc
    ELSE IntBase8(Tail(digits), acc * 8 + DigitVal(Head(digits)))

NumberValue(lexeme) ==
    IF lexeme = <<"0">>
    THEN 0
    ELSE IntBase8(SubSeq(lexeme, 3, Len(lexeme)), 0)

\* Parser._peek(): <<tok>> or <<>> for None; p counts from 0
PPeek(toks, p) == IF p < Len(toks) THEN <<toks[p + 1]>> ELSE <<>>

NoValue == <<>>

\* Parser._expect(kind, value): NoErr when the token matches (the caller then
\* moves the cursor by one), else the ParseError raised
Expect(toks, p, kind, value) ==
    LET pk == PPeek(toks, p)
    IN  IF pk = <<>>
        THEN ParseError("expected kind, input ended", kind, "", <<>>, 0, 0)
        ELSE LET tok == pk[1]
             IN  IF tok.kind # kind
                 THEN ParseError("expected kind", kind, tok.kind, tok.value,
                                 tok.line, tok.col)
                 ELSE IF value # NoValue /\ tok.value # value
                 THEN ParseError("expected value", kind, tok.kind, tok.value,
                                 tok.line, tok.col)
                 ELSE NoErr

\* a plausible slip: the duplicate check is missing
AlreadyDeclared_never(cs, name) == FALSE

\* name in self.consts: the duplicate check of _parse_const_declaration
AlreadyDeclared(cs, name) == DictHas(cs, name)

\* a plausible slip: the key check is missing
KeyUsed_never(res, key) == FALSE

\* key in result: the duplicate check of _parse_dict
KeyUsed(res, key) == DictHas(res, key)

\* a plausible slip: the lookup returns the first constant
Lookup_first(cs, name) == cs[1].val

\* self.consts[name] of _parse_expr
Lookup(cs, name) == DictGet(cs, name)

\* a plausible slip: the environment is replaced, not extended
Bind_reset(cs, name, v) == <<Entry(name, v)>>

\* self.consts[name] = value
Bind(cs, name, v) == DictSet(cs, name, v)

\* result[key] = value
PutMember(res, key, v) == DictSet(res, key, v)

\* items.append(value)
AppendItem(items, v) == Append(items, v)

\* Frames of the explicit stack: the local variables of the active calls.
DeclFrame(name) == [f |-> "decl", name |-> name]

ListFrame(items) == [f |-> "list", items |-> items]

DictFrame(res, key) == [f |-> "dict", result |-> res, key |-> key]

\* What a piece of parser code does next: raise err, return value v to the
\* caller, or call _parse_expr with frame fr on the stack; p is the token
\* cursor afterwards.
Raise(e) == [act |-> "raise", err |-> e]

Value(v, p) == [act |-> "value", val |-> v, ppos |-> p]

Call(fr, p) == [act |-> "call", frame |-> fr, ppos |-> p]

\* a plausible slip: the name is not checked before the expression
DeclHead_unchecked(toks, p, cs) ==
    LET e1 == Expect(toks, p, "IDENT", NoValue)
        e2 == Expect(toks, p + 1, "EQUAL", NoValue)
    IN  IF e1 # NoErr THEN Raise(e1)
        ELSE IF e2 # NoErr THEN Raise(e2)
        ELSE Call(DeclFrame(toks[p + 1].value), p + 2)

\* _parse_const_declaration up to its call of _parse_expr
DeclHead(toks, p, cs) ==
    LET e1 == Expect(toks, p, "IDENT", NoValue)
    IN  IF e1 # NoErr
        THEN Raise(e1)
        ELSE LET name_tok == toks[p + 1]
             IN  IF AlreadyDeclared(cs, name_tok.value)
                 THEN Raise(ParseError("duplicate constant", "", "", name_tok.value,
                                       name_tok.line, name_tok.col))
                 ELSE LET e2 == Expect(toks, p + 1, "EQUAL", NoValue)
                      IN  IF e2 # NoErr
                          THEN Raise(e2)
                          ELSE Call(DeclFrame(name_tok.value), p + 2)

\* _parse_list up to its first call of _parse_expr, or through its return
\* for an empty list
\* a plausible slip: the first item is parsed without a look at the token
ListHead_nonempty(toks, p) ==
    LET e1 == Expect(toks, p, "KW", <<"l", "i", "s", "t">>)
        e2 == Expect(toks, p + 1, "LPAREN", NoValue)
    IN  IF e1 # NoErr THEN Raise(e1)
        ELSE IF e2 # NoErr THEN Raise(e2)
        ELSE Call(ListFrame(<<>>), p + 2)

\* _parse_list up to its first call of _parse_expr
ListHead(toks, p) ==
    LET e1 == Expect(toks, p, "KW", <<"l", "i", "s", "t">>)
        e2 == Expect(toks, p + 1, "LPAREN", NoValue)
        pk == PPeek(toks, p + 2)
    IN  IF e1 # NoErr THEN Raise(e1)
        ELSE IF e2 # NoErr THEN Raise(e2)
        ELSE IF pk # <<>> /\ pk[1].kind # "RPAREN"
        THEN Call(ListFrame(<<>>), p + 2)
        ELSE LET e3 == Expect(toks, p + 2, "RPAREN", NoValue)
             IN  IF e3 # NoErr THEN Raise(e3) ELSE Value(ListV(<<>>), p + 3)

\* a plausible slip: the comma is looked at and not consumed
ListResume_stuck(toks, p, items0, v) ==
    LET items == AppendItem(items0, v)
        pk == PPeek(toks, p)
    IN  IF pk # <<>> /\ pk[1].kind = "COMMA"
        THEN Call(ListFrame(items), p)
        ELSE LET e == Expect(toks, p, "RPAREN", NoValue)
             IN  IF e # NoErr THEN Raise(e) ELSE Value(ListV(items), p + 1)

\* _parse_list after a call of _parse_expr returned v
ListResume(toks, p, items0, v) ==
    LET items == AppendItem(items0, v)
        pk == PPeek(toks, p)
    IN  IF pk # <<>> /\ pk[1].kind = "COMMA"
        THEN Call(ListFrame(items), p + 1)
        ELSE LET e == Expect(toks, p, "RPAREN", NoValue)
             IN  IF e # NoErr THEN Raise(e) ELSE Value(ListV(items), p + 1)

\* one iteration of the loop of _parse_dict, up to its call of _parse_expr
DictLoop(toks, p, res) ==
    LET pk == PPeek(toks, p)
    IN  IF pk = <<>>
        THEN Raise(ParseError("expected end, input ended", "end", "", <<>>, 0, 0))
        ELSE IF pk[1].kind = "KW" /\ pk[1].value = <<"e", "n", "d">>
        THEN Value(DictV(res), p + 1)
        ELSE LET e1 == Expect(toks, p, "IDENT", NoValue)
             IN  IF e1 # NoErr
                 THEN Raise(e1)
                 ELSE LET key_tok == pk[1]
                      IN  IF KeyUsed(res, key_tok.value)
                          THEN Raise(ParseError("duplicate key", "", "", key_tok.value,
                                                key_tok.line, key_tok.col))
                          ELSE LET e2 == Expect(toks, p + 1, "ASSIGN", NoValue)
                               IN  IF e2 # NoErr
                                   THEN Raise(e2)
                                   ELSE Call(DictFrame(res, key_tok.value), p + 2)

\* _parse_dict up to its first call of _parse_expr
DictHead(toks, p) ==
    LET e1 == Expect(toks, p, "KW", <<"b", "e", "g", "i", "n">>)
    IN  IF e1 # NoErr THEN Raise(e1) ELSE DictLoop(toks, p + 1, <<>>)

\* _parse_dict after a call of _parse_expr returned v
DictResume(toks, p, res0, key, v) ==
    LET e == Expect(toks, p, "SEMICOLON", NoValue)
    IN  IF e # NoErr THEN Raise(e) ELSE DictLoop(toks, p + 1, PutMember(res0, key, v))

\* a plausible slip: an unknown name evaluates to 0 instead of raising
IdentValue_default(cs, tok, p) ==
    IF ~DictHas(cs, tok.value)
    THEN Value(IntV(0), p + 1)
    ELSE Value(Lookup(cs, tok.value), p + 1)

\* _parse_expr on an identifier: the reference to a declared constant
IdentValue(cs, tok, p) ==
    IF ~DictHas(cs, tok.value)
    THEN Raise(ParseError("undeclared constant", "", "", tok.value, tok.line, tok.col))
    ELSE Value(Lookup(cs, tok.value), p + 1)

\* _parse_expr: the dispatch on the first token
Expr(toks, p, cs) ==
    LET pk == PPeek(toks, p)
    IN  IF pk = <<>>
        THEN Raise(ParseError("expected expression, input ended", "", "", <<>>, 0, 0))
        ELSE LET tok == pk[1]
             IN  IF tok.kind = "NUMBER"
                 THEN Value(IntV(NumberValue(tok.value)), p + 1)
                 ELSE IF tok.kind = "KW" /\ tok.value = <<"l", "i", "s", "t">>
                 THEN ListHead(toks, p)
                 ELSE IF tok.kind = "KW" /\ tok.value = <<"b", "e", "g", "i", "n">>
                 THEN DictHead(toks, p)
                 ELSE IF tok.kind = "IDENT"
                 THEN IdentValue(cs, tok, p)
                 ELSE Raise(ParseError("expected expression", "", tok.kind, tok.value,
                                       tok.line, tok.col))

(***************************************************************************)
(* Bounds and inputs                                                       *)
(***************************************************************************)
\* declarations in a generated program
MaxDecls == 2

\* characters in a generated number lexeme
MaxNumLen == 4

\* pieces in a generated text with comments
MaxPieces == 5

\* Frames (one declaration and the list(...) / begin...end literals open
\* inside it) the interpreter's call stack holds; CPython's recursion limit,
\* scaled down.
StackLimit == 3

\* the most calls of parse_config one process makes
MaxRuns == 3

RECURSIVE Cat(_)
Cat(parts) == IF parts = <<>> THEN <<>> ELSE Head(parts) \o Cat(Tail(parts))

RECURSIVE SepBy(_, _)
SepBy(parts, sep) ==
    IF parts = <<>> THEN <<>>
    ELSE IF Len(parts) = 1 THEN parts[1]
    ELSE parts[1] \o sep \o SepBy(Tail(parts), sep)

RECURSIVE SeqsUpTo(_, _)
SeqsUpTo(S, n) ==
    IF n = 0 THEN {<<>>}
    ELSE LET shorter == SeqsUpTo(S, n - 1)
         IN  shorter \cup {Append(s, x) : s \in {t \in shorter : Len(t) = n - 1}, x \in S}

W_list == <<"l", "i", "s", "t">>

W_begin == <<"b", "e", "g", "i", "n">>

W_end == <<"e", "n", "d">>

ListText(items) == W_list \o <<"(">> \o SepBy(items, <<",", " ">>) \o <<")">>

PairText(pair) == <<" ">> \o pair[1] \o <<" ", ":", "=", " ">> \o pair[2] \o <<";">>

DictText(pairs) ==
    W_begin \o Cat([i \in 1..Len(pairs) |-> PairText(pairs[i])]) \o <<" ">> \o W_end

DeclText(name, e) == name \o <<" ", "=", " ">> \o e

A == <<"a">>

B == <<"b">>

Zero == <<"0">>

Oct == <<"0", "o", "1", "7">>

Names == {A, B}

\* the right-hand sides of the generated declarations
Exprs ==
    { Zero, Oct, A, B,
      ListText(<<>>),
      ListText(<<Zero, A, ListText(<<A>>)>>),
      ListText(<<ListText(<<ListText(<<Zero>>)>>)>>),
      DictText(<<>>),
      DictText(<< <<A, Zero>>, <<B, A>> >>),
      DictText(<< <<B, Zero>>, <<B, A>> >>),
      DictText(<< <<B, Oct>>, <<A, DictText(<< <<B, A>> >>)>> >>),
      ListText(<<DictText(<< <<B, Zero>> >>), DictText(<< <<B, Oct>> >>)>>),
      ListText(<<ListText(<<>>), DictText(<<>>)>>),
      DictText(<< <<A, ListText(<<>>)>>, <<B, DictText(<<>>)>> >>) }

Decls == {DeclText(n, e) : n \in Names, e \in Exprs}

Programs == {SepBy(ds, <<"\n">>) : ds \in SeqsUpTo(Decls, MaxDecls)}

NumChars == {"0", "o", "O", "1", "7", "9"}

NumberTexts ==
    {<<"a", "=">> \o Zero \o s : s \in SeqsUpTo(NumChars, MaxNumLen - 1)}

Pieces == {<<"{", "{", "!">>, <<"}", "}">>, <<"}">>, A, Zero, <<"\n">>}

CommentTexts == {Cat(ps) : ps \in SeqsUpTo(Pieces, MaxPieces)}

\* The sources of the unit tests (test_config_lang.py), without the
\* indentation of the test file.
\* test_number_zero_and_octal
Ex_numbers ==
    <<"a", " ", "=", " ", "0", "\n", "b", " ", "=", " ", "0", "o", "1", "0",
      "\n", "c", " ", "=", " ", "0", "0", "0", "7", "\n">>

\* test_invalid_number_raises
Ex_invalid_number ==
    <<"a", " ", "=", " ", "0", "9", "\n">>

\* test_list_and_nested_values
Ex_list ==
    <<"b", "a", "s", "e", " ", "=", " ", "0", "o", "2", "\n", "v", "a", "l",
      "u", "e", "s", " ", "=", " ", "l", "i", "s", "t", "(", "0", ",", " ",
      "b", "a", "s", "e", ",", " ", "l", "i", "s", "t", "(", "b", "a", "s",
      "e", ")", ")", "\n">>

\* test_dict_with_nested_structures
Ex_dict ==
    <<"n", "u", "m", " ", "=", " ", "0", "o", "5", "\n", "a", "r", "r", " ",
      "=", " ", "l", "i", "s", "t", "(", "n", "u", "m", ",", " ", "0", ")",
      "\n", "o", "b", "j", " ", "=", " ", "b", "e", "g", "i", "n", "\n", " ",
      "v", "a", "l", "u", "e", " ", ":", "=", " ", "n", "u", "m", ";", "\n",
      " ", "l", "i", "s", "t", "_", "v", "a", "l", "u", "e", " ", ":", "=",
      " ", "a", "r", "r", ";", "\n", " ", "i", "n", "n", "e", "r", " ", ":",
      "=", " ", "b", "e", "g", "i", "n", "\n", " ", "x", " ", ":", "=", " ",
      "0", ";", "\n", " ", "e", "n", "d", ";", "\n", "e", "n", "d", "\n">>

\* test_comments_are_ignored
Ex_comment ==
    <<"{", "{", "!", " ", "c", "o", "m", "m", "e", "n", "t", "\n", "s", "p",
      "a", "n", "s", " ", "l", "i", "n", "e", "s", " ", "}", "}", "\n", "x",
      " ", "=", " ", "0", "\n">>

\* test_const_reference_and_shadowing_error
Ex_reference ==
    <<"a", " ", "=", " ", "0", "o", "7", "\n", "b", " ", "=", " ", "a", "\n">>

\* test_const_reference_and_shadowing_error
Ex_duplicate ==
    <<"a", " ", "=", " ", "0", "\n", "a", " ", "=", " ", "0", "\n">>

\* test_undeclared_const_usage_raises
Ex_undeclared ==
    <<"a", " ", "=", " ", "b">>

Examples ==
    {Ex_numbers, Ex_invalid_number, Ex_list, Ex_dict,
     Ex_comment, Ex_reference, Ex_duplicate, Ex_undeclared}

\* a reference to a name that is not declared, then a character after a
\* number that starts no token
LateLexError ==
    DeclText(A, B) \o <<"\n">> \o DeclText(B, Zero \o <<"9">>)

\* the lexemes of the grammar, one of each kind of token and keyword
Lexemes ==
    {A, <<"=">>, Zero, W_list, <<"(">>, <<")">>, <<",">>, W_begin, W_end,
     <<":", "=">>, <<";">>}

\* a = list ( 0 , 0 ) b = begin a := 0 ; end
BaseLexemes ==
    <<A, <<"=">>, W_list, <<"(">>, Zero, <<",">>, Zero, <<")">>,
      B, <<"=">>, W_begin, A, <<":", "=">>, Zero, <<";">>, W_end>>

\* ls with one lexeme taken out, put in, or put in the place of another
Edits(ls) ==
    LET n == Len(ls)
    IN  {SubSeq(ls, 1, i - 1) \o SubSeq(ls, i + 1, n) : i \in 1..n}
        \cup {SubSeq(ls, 1, i) \o <<l>> \o SubSeq(ls, i + 1, n) :
                  i \in 0..n, l \in Lexemes}
        \cup {SubSeq(ls, 1, i - 1) \o <<l>> \o SubSeq(ls, i + 1, n) :
                  i \in 1..n, l \in Lexemes}

\* a program of two declarations and every text one lexeme away from it
GrammarTexts == {SepBy(ls, <<" ">>) : ls \in Edits(BaseLexemes)}

Inputs ==
    Programs \cup NumberTexts \cup CommentTexts \cup Examples
        \cup {LateLexError} \cup GrammarTexts

\* the texts of a process that calls parse_config several times
RunTexts == Examples

(***************************************************************************)
(* State                                                                   *)
(***************************************************************************)
VARIABLES
    text,      \* the source text: Lexer.text, main's src
    phase,     \* "lex", "parse", then "returned" or "raised" (parse_config
               \* returned or raised), then "exit" (main is over)
    pos, line, col,   \* the Lexer's cursor
    tokens,    \* the list Lexer.tokens builds, then Parser.tokens
    ppos,      \* Parser.pos
    consts,    \* Parser.consts
    stack,     \* the frames of the active parser calls, outermost first
    ctl,       \* where the parser is: "program" (the loop of parse_program),
               \* "expr" (entering _parse_expr), "ret" (a value is returned)
    val,       \* the value being returned
    err,       \* the exception raised, NoErr if none
    stdout, stderr,   \* what main wrote
    rc,        \* main's return value, -1 while it has not returned
    comments,  \* history: the spans of the comments the lexer skipped
    tokStart,  \* history: where the last _next_token call began its token,
               \* -1 before the first call
    bound,     \* history: the name and value of every binding made, in order
    runs,      \* the number of parse_config calls the process has made
    log        \* history: the text and the outcome of every earlier call

vars ==
    <<text, phase, pos, line, col, tokens, ppos, consts, stack, ctl, val, err,
      stdout, stderr, rc, comments, tokStart, bound, runs, log>>

lexerVars == <<pos, line, col, tokens, comments, tokStart>>

parserVars == <<ppos, consts, stack, ctl, val, bound>>

mainVars == <<stdout, stderr, rc>>

callerVars == <<runs, log>>

NoVal == [t |-> "none"]

\* a plausible slip: consts is an attribute of the class, one dictionary
\* for all parsers
ParserConsts_shared(previous) == previous

\* Parser.__init__: the consts of a new parser, whatever the parser before
\* it ended with
ParserConsts(previous) == <<>>

Init ==
    /\ text \in Inputs
    /\ phase = "lex"
    /\ pos = LexerInit.pos /\ line = LexerInit.line /\ col = LexerInit.col
    /\ tokens = <<>>
    /\ ppos = 0
    /\ consts = ParserConsts(<<>>)
    /\ stack = <<>>
    /\ ctl = "program"
    /\ val = NoVal
    /\ err = NoErr
    /\ stdout = <<>> /\ stderr = <<>> /\ rc = -1
    /\ comments = <<>>
    /\ tokStart = -1
    /\ bound = <<>>
    /\ runs = 1
    /\ log = <<>>

(***************************************************************************)
(* Steps                                                                   *)
(***************************************************************************)
\* a plausible slip: the loop of Lexer.tokens ends at a lexical error as it
\* does at the end of the input
LexNextToken_lenient ==
    /\ phase = "lex"
    /\ LET r == NextToken(text, Cursor(pos, line, col))
       IN  /\ pos' = r.cur.pos /\ line' = r.cur.line /\ col' = r.cur.col
           /\ comments' = comments \o r.spans
           /\ tokStart' = r.start
           /\ err' = err
           /\ IF r.err # NoErr \/ r.tok = <<>>
              THEN phase' = "parse" /\ tokens' = tokens
              ELSE phase' = "lex" /\ tokens' = Append(tokens, r.tok[1])
    /\ UNCHANGED <<text, callerVars, parserVars, mainVars>>

\* One iteration of the loop of Lexer.tokens: a _next_token call, then the
\* append of its token, or the end of the loop at None (parse_config goes on
\* to construct the Parser), or the exception leaving parse_config.
LexNextToken ==
    /\ phase = "lex"
    /\ LET r == NextToken(text, Cursor(pos, line, col))
       IN  /\ pos' = r.cur.pos /\ line' = r.cur.line /\ col' = r.cur.col
           /\ comments' = comments \o r.spans
           /\ tokStart' = r.start
           /\ IF r.err # NoErr
              THEN phase' = "raised" /\ err' = r.err /\ tokens' = tokens
              ELSE IF r.tok = <<>>
              THEN phase' = "parse" /\ err' = err /\ tokens' = tokens
              ELSE phase' = "lex" /\ err' = err /\ tokens' = Append(tokens, r.tok[1])
    /\ UNCHANGED <<text, callerVars, parserVars, mainVars>>

\* What the parser does with the outcome r of a piece of its code, rest being
\* the frames that stay below.
Continue(r, rest) ==
    IF r.act = "raise"
    THEN /\ phase' = "raised" /\ err' = r.err
         /\ UNCHANGED <<ppos, stack, ctl, val>>
    ELSE IF r.act = "value"
    THEN /\ val' = r.val /\ ppos' = r.ppos /\ ctl' = "ret" /\ stack' = rest
         /\ UNCHANGED <<phase, err>>
    ELSE /\ stack' = Append(rest, r.frame) /\ ppos' = r.ppos /\ ctl' = "expr"
         /\ UNCHANGED <<phase, err, val>>

\* parse_program: the loop ends at the end of the tokens
ParseProgramReturn ==
    /\ phase = "parse" /\ ctl = "program"
    /\ PPeek(tokens, ppos) = <<>>
    /\ phase' = "returned"
    /\ UNCHANGED <<text, callerVars, lexerVars, parserVars, err, mainVars>>

\* parse_program: one more declaration, up to its expression
ParseConstDeclaration ==
    /\ phase = "parse" /\ ctl = "program"
    /\ PPeek(tokens, ppos) # <<>>
    /\ Continue(DeclHead(tokens, ppos, consts), <<>>)
    /\ UNCHANGED <<text, callerVars, lexerVars, consts, bound, mainVars>>

\* does the call stack have room for the call of _parse_list / _parse_dict
\* that the token at p asks for
Overflows(toks, p, depth) ==
    /\ PPeek(toks, p) # <<>>
    /\ toks[p + 1].kind = "KW"
    /\ toks[p + 1].value \in {W_list, W_begin}
    /\ depth >= StackLimit

\* a call of _parse_expr, up to the next nested call or its return
ParseExpr ==
    /\ phase = "parse" /\ ctl = "expr"
    /\ IF Overflows(tokens, ppos, Len(stack))
       THEN Continue(Raise(Error("RecursionError", "maximum recursion depth exceeded",
                                 "", "", <<>>, 0, 0)), stack)
       ELSE Continue(Expr(tokens, ppos, consts), stack)
    /\ UNCHANGED <<text, callerVars, lexerVars, consts, bound, mainVars>>

\* a value returns to the caller of _parse_expr, which runs up to its next
\* call of _parse_expr or its own return
ReturnValue ==
    /\ phase = "parse" /\ ctl = "ret"
    /\ LET top == stack[Len(stack)]
           rest == SubSeq(stack, 1, Len(stack) - 1)
       IN  IF top.f = "decl"
           THEN /\ consts' = Bind(consts, top.name, val)
                /\ bound' = Append(bound, Entry(top.name, val))
                /\ stack' = rest
                /\ ctl' = "program"
                /\ UNCHANGED <<phase, err, ppos, val>>
           ELSE /\ IF top.f = "list"
                   THEN Continue(ListResume(tokens, ppos, top.items, val), rest)
                   ELSE Continue(DictResume(tokens, ppos, top.result, top.key, val), rest)
                /\ UNCHANGED <<consts, bound>>
    /\ UNCHANGED <<text, callerVars, lexerVars, mainVars>>

\* json.dump(data, sys.stdout, ...): the serialization is kept abstract
JsonDump(data) == [json |-> data]

\* main after parse_config: the JSON and a newline on stdout and 0, or the
\* message on stderr and 1 for the two exceptions it catches; any other
\* exception leaves main, which then returns nothing.  The prefix stands for
\* the Cyrillic word the program prints.
Main ==
    /\ phase \in {"returned", "raised"}
    /\ phase' = "exit"
    /\ IF phase = "returned"
       THEN /\ stdout' = <<JsonDump(consts), "\n">>
            /\ rc' = 0
            /\ stderr' = stderr
       ELSE IF err.kind \in {"LexError", "ParseError"}
       THEN /\ stderr' = <<[prefix |-> "Oshibka: ", exc |-> err], "\n">>
            /\ rc' = 1
            /\ stdout' = stdout
       ELSE /\ stderr' = <<[traceback |-> err]>>
            /\ UNCHANGED <<stdout, rc>>
    /\ UNCHANGED <<text, callerVars, lexerVars, parserVars, err>>

Next ==
    \/ LexNextToken
    \/ ParseProgramReturn
    \/ ParseConstDeclaration
    \/ ParseExpr
    \/ ReturnValue
    \/ Main

Spec == Init /\ [][Next]_vars

(***************************************************************************)
(* A process that calls parse_config more than once, as the test module    *)
(* does                                                                    *)
(***************************************************************************)
\* what the caller of parse_config got: the environment or the exception
Outcome ==
    IF phase = "returned"
    THEN [returned |-> TRUE, env |-> consts, exc |-> NoErr]
    ELSE [returned |-> FALSE, env |-> <<>>, exc |-> err]

\* one more call of parse_config, after the one before returned or raised:
\* a new Lexer on the text, then a new Parser
ParseConfig ==
    /\ phase \in {"returned", "raised"}
    /\ runs < MaxRuns
    /\ runs' = runs + 1
    /\ log' = Append(log, [text |-> text, outcome |-> Outcome])
    /\ text' \in RunTexts
    /\ phase' = "lex"
    /\ pos' = LexerInit.pos /\ line' = LexerInit.line /\ col' = LexerInit.col
    /\ tokens' = <<>>
    /\ ppos' = 0
    /\ consts' = ParserConsts(consts)
    /\ stack' = <<>>
    /\ ctl' = "program"
    /\ val' = NoVal
    /\ err' = NoErr
    /\ comments' = <<>>
    /\ tokStart' = -1
    /\ bound' = <<>>
    /\ UNCHANGED mainVars

InitRuns ==
    /\ text \in RunTexts
    /\ phase = "lex"
    /\ pos = LexerInit.pos /\ line = LexerInit.line /\ col = LexerInit.col
    /\ tokens = <<>>
    /\ ppos = 0
    /\ consts = ParserConsts(<<>>)
    /\ stack = <<>>
    /\ ctl = "program"
    /\ val = NoVal
    /\ err = NoErr
    /\ stdout = <<>> /\ stderr = <<>> /\ rc = -1
    /\ comments = <<>>
    /\ tokStart = -1
    /\ bound = <<>>
    /\ runs = 1
    /\ log = <<>>

NextRuns ==
    \/ LexNextToken
    \/ ParseProgramReturn
    \/ ParseConstDeclaration
    \/ ParseExpr
    \/ ReturnValue
    \/ Main
    \/ ParseConfig

SpecRuns == InitRuns /\ [][NextRuns]_vars

(***************************************************************************)
(* Properties                                                              *)
(***************************************************************************)
\* the names of the top-level declarations that have completed
BoundNames == {bound[i].key : i \in 1..Len(bound)}

\* the token the parser is at
AtToken == phase = "parse" /\ ppos < Len(tokens)

NextTok == tokens[ppos + 1]

\* the token the parser consumed last
LastTok == tokens[ppos]

\* the next step is a call of _parse_expr on an identifier
EvaluatesIdent == AtToken /\ ctl = "expr" /\ NextTok.kind = "IDENT"

Undeclared(e, name) ==
    e.kind = "ParseError" /\ e.msg = "undeclared constant" /\ e.what = name

\* C1: an identifier in expression position, at top level or nested in
\* list(...) / begin...end, resolves only if a top-level declaration of that
\* name completed earlier; a reference to the constant being declared, or to
\* one not declared yet, raises the undeclared-constant ParseError.
C1_ForwardReferencesRejected ==
    [][EvaluatesIdent =>
          LET name == NextTok.value
          IN  /\ (phase' = "parse" => name \in BoundNames /\ name # stack[1].name)
              /\ (name \notin BoundNames \/ name = stack[1].name
                    => phase' = "raised" /\ Undeclared(err', name) /\ consts' = consts)
       ]_vars

\* a self reference nested in a list or dict, after a completed declaration,
\* was rejected
C1_Witness ==
    /\ phase = "raised" /\ Len(stack) >= 2 /\ Len(bound) >= 1
    /\ Undeclared(err, stack[1].name)

\* C2: a declaration of a name already in the environment raises the
\* duplicate-constant ParseError naming it; no step overwrites or shadows an
\* existing binding.
C2_DuplicateConstantRejected ==
    /\ [][AtToken /\ ctl = "program" /\ NextTok.kind = "IDENT"
            /\ DictHas(consts, NextTok.value)
          => /\ phase' = "raised"
             /\ err'.kind = "ParseError" /\ err'.msg = "duplicate constant"
             /\ err'.what = NextTok.value
       ]_vars
    /\ [][/\ Len(consts') >= Len(consts)
          /\ \A i \in 1..Len(consts) : consts'[i] = consts[i]
          /\ \A i, j \in 1..Len(consts') : consts'[i].key = consts'[j].key => i = j
       ]_vars

\* a second declaration of a bound name was rejected and the binding stands
C2_Witness ==
    /\ phase = "raised" /\ err.msg = "duplicate constant"
    /\ DictHas(consts, err.what)
    /\ consts = bound

\* --- number literals, as the specification words them ---
\* the characters a number lexeme is scanned from
NumberSet == {"0", "o", "O", "1", "2", "3", "4", "5", "6", "7"}

\* 0 or 0[oO0][0-7]+
ValidShape(l) ==
    \/ l = <<"0">>
    \/ /\ Len(l) >= 3
       /\ l[1] = "0"
       /\ l[2] \in {"o", "O", "0"}
       /\ \A i \in 3..Len(l) : l[i] \in {"0", "1", "2", "3", "4", "5", "6", "7"}

\* the maximal run of NumberSet characters that starts at position s (from 0)
RunAt(txt, s) ==
    LET e == CHOOSE k \in s..Len(txt) :
                 /\ \A i \in (s + 1)..k : txt[i] \in NumberSet
                 /\ (k = Len(txt) \/ txt[k + 1] \notin NumberSet)
    IN  SubSeq(txt, s + 1, e)

RECURSIVE Pow8(_)
Pow8(n) == IF n = 0 THEN 1 ELSE 8 * Pow8(n - 1)

\* the base-8 value of a digit string, place by place
RECURSIVE PlaceSum(_, _)
PlaceSum(ds, i) ==
    IF i > Len(ds) THEN 0
    ELSE DigitVal(ds[i]) * Pow8(Len(ds) - i) + PlaceSum(ds, i + 1)

OctalValue(l) == IF l = <<"0">> THEN 0 ELSE PlaceSum(SubSeq(l, 3, Len(l)), 1)

\* line and column of position s (from 0) of a text
LineOf(txt, s) == 1 + Cardinality({i \in 1..s : txt[i] = "\n"})

ColOf(txt, s) ==
    LET nl == {i \in 1..s : txt[i] = "\n"}
    IN  IF nl = {} THEN s + 1
        ELSE s + 1 - (CHOOSE m \in nl : \A i \in nl : i <= m)

\* the step is a _next_token call whose token scan starts at a 0
ScansNumber == phase = "lex" /\ tokStart' < Len(text) /\ text[tokStart' + 1] = "0"

InvalidNumber(e) == e.kind = "LexError" /\ e.msg \in {"bad shape", "bad octal"}

StartsNoToken(txt, s) ==
    /\ s < Len(txt)
    /\ txt[s + 1] \notin Lower \cup {"0"} \cup {"(", ")", ",", ";", "="} \cup Space
    /\ ~(txt[s + 1] = ":" /\ s + 1 < Len(txt) /\ txt[s + 2] = "=")
    /\ ~(s + 2 < Len(txt) /\ txt[s + 1] = "{" /\ txt[s + 2] = "{" /\ txt[s + 3] = "!")

\* the lexer has just returned the token of a bare 0 that such a character
\* outside the number characters follows
AfterBareZero ==
    /\ phase = "lex" /\ tokStart >= 0 /\ tokStart < Len(text)
    /\ text[tokStart + 1] = "0"
    /\ RunAt(text, tokStart) = <<"0">>
    /\ StartsNoToken(text, tokStart + 1)

\* C4: a bare 0 followed by a character outside the number characters that
\* starts no token (09): the call that scans the 0 returns the NUMBER token 0,
\* the next call raises the unexpected-character LexError at that character,
\* and no invalid-number error ever names a run with such a character;
\* parse_config on the text of the unit test raises LexError.
C4_EmitThenFail ==
    /\ [][ScansNumber /\ RunAt(text, tokStart') = <<"0">>
            /\ StartsNoToken(text, tokStart' + 1)
            => /\ phase' = "lex" /\ err' = NoErr
               /\ tokens' = Append(tokens, Token("NUMBER", <<"0">>,
                                                 LineOf(text, tokStart'),
                                                 ColOf(text, tokStart')))
               /\ pos' = tokStart' + 1
       ]_vars
    /\ [][AfterBareZero
            => /\ phase' = "raised" /\ tokens' = tokens
               /\ err' = LexError("unexpected character", <<text[tokStart + 2]>>,
                                  LineOf(text, tokStart + 1), ColOf(text, tokStart + 1))
       ]_vars
    /\ [](InvalidNumber(err) => \A i \in 1..Len(err.what) : err.what[i] \in NumberSet)
    /\ [](text = Ex_invalid_number /\ phase \notin {"lex", "exit"}
            => phase = "raised" /\ err.kind = "LexError")

\* the text of the unit test: the token 0 is in the list and the 9 was refused
C4_Witness ==
    /\ text = Ex_invalid_number /\ phase = "raised"
    /\ tokens[Len(tokens)] = Token("NUMBER", <<"0">>, 1, 5)
    /\ err = LexError("unexpected character", <<"9">>, 1, 6)

\* C10: a greedily scanned lexeme that starts with 0 and is neither 0 nor of
\* the shape 0[oO0][0-7]+ raises the invalid-number LexError that names the
\* lexeme and the line and column of its start, and adds no token.
C10_InvalidNumberRejected ==
    [][ScansNumber /\ ~ValidShape(RunAt(text, tokStart'))
         => /\ phase' = "raised" /\ tokens' = tokens
            /\ InvalidNumber(err')
            /\ err'.what = RunAt(text, tokStart')
            /\ err'.line = LineOf(text, tokStart')
            /\ err'.col = ColOf(text, tokStart')
      ]_vars

\* 0oo7, with o after the second position, was refused after two tokens
C10_Witness ==
    /\ phase = "raised" /\ InvalidNumber(err)
    /\ err.what = <<"0", "o", "o", "7">>
    /\ Len(tokens) = 2

\* --- order of the results ---
\* A value written back as the kinds and values of the tokens of a literal,
\* members and elements in the order the value holds them.
Tk(kind, value) == [k |-> kind, v |-> value]

RECURSIVE Render(_)
Render(v) ==
    IF v.t = "int"
    THEN <<[k |-> "INT", n |-> v.n]>>
    ELSE IF v.t = "list"
    THEN <<Tk("KW", W_list), Tk("LPAREN", <<"(">>)>>
         \o SepBy([i \in 1..Len(v.items) |-> Render(v.items[i])], <<Tk("COMMA", <<",">>)>>)
         \o <<Tk("RPAREN", <<")">>)>>
    ELSE <<Tk("KW", W_begin)>>
         \o Cat([i \in 1..Len(v.entries) |->
                   <<Tk("IDENT", v.entries[i].key), Tk("ASSIGN", <<":", "=">>)>>
                   \o Render(v.entries[i].val)
                   \o <<Tk("SEMICOLON", <<";">>)>>])
         \o <<Tk("KW", W_end)>>

RenderEnv(env) ==
    Cat([i \in 1..Len(env) |->
           <<Tk("IDENT", env[i].key), Tk("EQUAL", <<"=">>)>> \o Render(env[i].val)])

\* The tokens of a source in their order, each number replaced by its value
\* and each identifier in expression position by the constant's value.
Normalize(toks, env) ==
    Cat([i \in 1..Len(toks) |->
           IF toks[i].kind = "NUMBER"
           THEN <<[k |-> "INT", n |-> OctalValue(toks[i].value)]>>
           ELSE IF /\ toks[i].kind = "IDENT"
                   /\ ~(i < Len(toks) /\ toks[i + 1].kind \in {"EQUAL", "ASSIGN"})
           THEN Render(DictGet(env, toks[i].value))
           ELSE <<Tk(toks[i].kind, toks[i].value)>>])

\* C5: for a successfully processed program the environment lists the
\* constants in the order of their declarations, every dict its members in
\* the order of its pairs and every list its elements in the order of its
\* sub-expressions: writing the environment back gives the source's tokens.
C5_SourceOrderPreserved ==
    phase = "returned" => RenderEnv(consts) = Normalize(tokens, consts)

\* a program of three declarations with a list of two elements and a dict of
\* three members was processed
C5_Witness ==
    /\ phase = "returned" /\ Len(consts) = 3
    /\ \E i \in 1..3 : consts[i].val.t = "list" /\ Len(consts[i].val.items) = 2
    /\ \E i \in 1..3 : consts[i].val.t = "dict" /\ Len(consts[i].val.entries) = 3

\* --- references ---
\* the value a completed declaration bound to name
BoundValue(name) == bound[CHOOSE i \in 1..Len(bound) : bound[i].key = name].val

\* C6: an identifier in expression position that names a declared constant
\* evaluates to the value the constant was bound to, at any nesting depth.
C6_ReferenceYieldsBoundValue ==
    /\ [][EvaluatesIdent /\ NextTok.value \in BoundNames
            => /\ phase' = "parse" /\ ctl' = "ret" /\ ppos' = ppos + 1
               /\ val' = BoundValue(NextTok.value)
       ]_vars
    /\ [](text = Ex_list /\ phase = "returned"
            => consts = <<Entry(<<"b", "a", "s", "e">>, IntV(2)),
                          Entry(<<"v", "a", "l", "u", "e", "s">>,
                                ListV(<<IntV(0), IntV(2), ListV(<<IntV(2)>>)>>))>>)

\* a reference two literals deep returned the dict the constant holds
C6_Witness ==
    /\ phase = "parse" /\ ctl = "ret" /\ LastTok.kind = "IDENT"
    /\ Len(stack) = 3
    /\ val.t = "dict" /\ val = BoundValue(LastTok.value)

\* --- dict keys ---
\* the parser is about to take the pair that follows a completed one
AtNextPair ==
    /\ phase = "parse" /\ ctl = "ret" /\ stack[Len(stack)].f = "dict"
    /\ ppos + 1 < Len(tokens)
    /\ tokens[ppos + 1].kind = "SEMICOLON"
    /\ tokens[ppos + 2].kind = "IDENT"

\* the keys of the dict under construction, the pair just evaluated included
KeysSoFar ==
    LET top == stack[Len(stack)]
    IN  {top.result[i].key : i \in 1..Len(top.result)} \cup {top.key}

DuplicateKey(e, tok) ==
    e = ParseError("duplicate key", "", "", tok.value, tok.line, tok.col)

\* C7: in one dict literal a pair whose key the dict under construction has
\* raises the duplicate-key ParseError naming the key and its place, and no
\* member is overwritten; a key used in another dict literal or equal to a
\* constant's name raises no such error.
C7_DuplicateKeyRejected ==
    /\ [][AtNextPair
            => IF tokens[ppos + 2].value \in KeysSoFar
               THEN phase' = "raised" /\ DuplicateKey(err', tokens[ppos + 2])
               ELSE err'.kind # "ParseError" \/ err'.msg # "duplicate key"
       ]_vars
    /\ [][\A i \in 1..Len(stack) :
            (stack[i].f = "dict" /\ i <= Len(stack'))
              => /\ stack'[i].f = "dict"
                 /\ Len(stack'[i].result) >= Len(stack[i].result)
                 /\ \A j \in 1..Len(stack[i].result) :
                        stack'[i].result[j] = stack[i].result[j]
       ]_vars
    /\ [](\A i \in 1..Len(stack) :
            stack[i].f = "dict"
              => \A j, k \in 1..Len(stack[i].result) :
                     stack[i].result[j].key = stack[i].result[k].key => j = k)
    /\ [](phase = "raised" /\ err.kind = "ParseError" /\ err.msg = "duplicate key"
            => /\ ctl = "ret" /\ stack[Len(stack)].f = "dict"
               /\ err.what \in KeysSoFar)

\* a key that is also a constant's name was accepted once and refused the
\* second time in the same literal
C7_Witness ==
    /\ phase = "raised" /\ err.kind = "ParseError" /\ err.msg = "duplicate key"
    /\ stack[Len(stack)].f = "dict"
    /\ err.what \in KeysSoFar
    /\ DictHas(consts, err.what)

\* --- comments ---
\* Lexer.tokens as a function of the text: the tokens returned before the
\* end of the text or the first error
RECURSIVE LexFrom(_, _, _)
LexFrom(txt, cur, acc) ==
    LET r == NextToken(txt, cur)
    IN  IF r.err # NoErr THEN [toks |-> acc, err |-> r.err]
        ELSE IF r.tok = <<>> THEN [toks |-> acc, err |-> NoErr]
        ELSE LexFrom(txt, r.cur, Append(acc, r.tok[1]))

LexAll(txt) == LexFrom(txt, LexerInit, <<>>)

KindsValues(toks) == [i \in 1..Len(toks) |-> Tk(toks[i].kind, toks[i].value)]

\* an error without its place
Message(e) == IF e = NoErr THEN <<"none">> ELSE <<e.kind, e.msg, e.what>>

\* the text with the characters first..last replaced by one space
Blanked(txt, first, last) ==
    SubSeq(txt, 1, first - 1) \o <<" ">> \o SubSeq(txt, last + 1, Len(txt))

\* first..last is an opening brace-brace-bang up to the first brace-brace
\* after it
EndsAtFirstClose(txt, first, last) ==
    /\ txt[first] = "{" /\ txt[first + 1] = "{" /\ txt[first + 2] = "!"
    /\ last >= first + 4
    /\ txt[last - 1] = "}" /\ txt[last] = "}"
    /\ \A k \in (first + 3)..(last - 2) : ~(txt[k] = "}" /\ txt[k + 1] = "}")

\* C8: a comment runs from its opening to the first closing braces after it,
\* whatever is between, and the tokens (kinds and values) and the outcome of
\* lexing are those of the text with the comment replaced by a space.
C8_CommentsElided ==
    /\ \A i \in 1..Len(comments) :
          EndsAtFirstClose(text, comments[i][1], comments[i][2])
    /\ phase \in {"parse", "raised"} /\ err.kind \in {"none", "LexError"}
         => \A i \in 1..Len(comments) :
               LET other == LexAll(Blanked(text, comments[i][1], comments[i][2]))
               IN  /\ KindsValues(tokens) = KindsValues(other.toks)
                   /\ Message(err) = Message(other.err)

\* a comment that holds a second opening ended at the first closing braces,
\* between two tokens
C8_Witness ==
    /\ phase = "parse" /\ Len(tokens) = 2 /\ comments = << <<2, 9>> >>
    /\ text = A \o <<"{", "{", "!", "{", "{", "!", "}", "}">> \o Zero

\* --- outcomes ---
\* C9: parse_config returns the environment of the whole program or raises
\* LexError or ParseError, with no partial environment; main writes the JSON
\* to stdout and returns 0 only on success, and on LexError or ParseError
\* writes nothing to stdout, the prefixed message to stderr and returns 1.
C9_AllOrNothing ==
    /\ phase = "returned"
         => ppos = Len(tokens) /\ stack = <<>> /\ consts = bound /\ err = NoErr
    /\ phase = "raised" => err.kind \in {"LexError", "ParseError"}
    /\ phase = "exit"
         => /\ (rc = 0 \/ stdout # <<>>)
                => err = NoErr /\ rc = 0 /\ stdout = <<JsonDump(bound), "\n">>
            /\ err # NoErr
                => /\ err.kind \in {"LexError", "ParseError"}
                   /\ stdout = <<>> /\ rc = 1
                   /\ stderr = <<[prefix |-> "Oshibka: ", exc |-> err], "\n">>


\* ---------------------------------------------------------------------
\* C11
\* ---------------------------------------------------------------------

\* three characters from position s on (counting from 0) open a comment
OpeningAt(txt, s) ==
    /\ s + 3 <= Len(txt)
    /\ txt[s + 1] = "{" /\ txt[s + 2] = "{" /\ txt[s + 3] = "!"

\* closing braces at positions s, s + 1 (counting from 0)
ClosingAt(txt, s) == s + 2 <= Len(txt) /\ txt[s + 1] = "}" /\ txt[s + 2] = "}"

\* the comment opened at s has no closing braces before the end of the input
NeverClosed(txt, s) ==
    OpeningAt(txt, s) /\ \A k \in (s + 3)..Len(txt) : ~ClosingAt(txt, k)

\* everything from position s up to position o is white space and whole
\* comments
RECURSIVE OnlyBlanks(_, _, _)
OnlyBlanks(txt, s, o) ==
    IF s >= o THEN s = o
    ELSE IF txt[s + 1] \in Space THEN OnlyBlanks(txt, s + 1, o)
    ELSE IF OpeningAt(txt, s) /\ ~NeverClosed(txt, s)
         THEN LET k == CHOOSE j \in (s + 3)..Len(txt) :
                           /\ ClosingAt(txt, j)
                           /\ \A i \in (s + 3)..(j - 1) : ~ClosingAt(txt, i)
              IN  OnlyBlanks(txt, k + 2, o)
         ELSE FALSE

\* the openings of comments that are never closed and that the lexer,
\* standing at pos, meets before any token
OpenAhead ==
    {o \in pos..Len(text) : NeverClosed(text, o) /\ OnlyBlanks(text, pos, o)}

\* C11: when the lexer meets a comment opening with no closing braces
\* anywhere after it, the call raises the unterminated-comment LexError, and
\* the line and column of that error are those of the opening, not those of
\* the end of the input where the cursor stands; no other error and no token
\* comes out of the call.
C11_UnterminatedCommentAtOpening ==
    [][/\ (phase = "lex" /\ OpenAhead # {}) =>
             \E o \in OpenAhead :
                /\ phase' = "raised"
                /\ err' = LexError("unterminated comment", <<>>,
                                   LineOf(text, o), ColOf(text, o))
                /\ tokens' = tokens
                /\ pos' = Len(text)
       /\ (phase = "lex" /\ phase' = "raised"
              /\ err'.msg = "unterminated comment") =>
             /\ OpenAhead # {}
             /\ <<err'.line, err'.col>> # <<line', col'>>]_vars

\* an unterminated comment after a token, with a line break inside
C11_Witness ==
    /\ phase = "raised" /\ err.kind = "LexError"
    /\ err.msg = "unterminated comment"
    /\ Len(tokens) >= 1
    /\ err.col > 1
    /\ line > err.line


\* ---------------------------------------------------------------------
\* C12
\* ---------------------------------------------------------------------

\* the next step is a call of _parse_expr on a list or dictionary that is
\* nested deeper than the call stack holds
TooDeep == phase = "parse" /\ ctl = "expr" /\ Overflows(tokens, ppos, Len(stack))

\* C12: a program nested deeper than the implementation can handle fails
\* with a nesting-too-deep error of the LexError/ParseError class, which
\* main reports like every other error, and never with the error of an
\* exhausted call stack.
C12_NestingTooDeepError ==
    [][/\ TooDeep =>
             /\ phase' = "raised"
             /\ err'.kind \in {"LexError", "ParseError"}
             /\ err'.msg = "nesting too deep"
       /\ (phase = "raised" /\ phase' = "exit") =>
             /\ err.kind # "RecursionError"
             /\ rc' = 1
             /\ stderr' = <<[prefix |-> "Oshibka: ", exc |-> err], "\n">>]_vars


\* ---------------------------------------------------------------------
\* C13
\* ---------------------------------------------------------------------

\* the parser is about to evaluate an expression that starts with the
\* tokens of the given kinds and values (NoValue: of any value), and the
\* stack has room for the call
EvaluatesTokens(kvs) ==
    /\ phase = "parse" /\ ctl = "expr"
    /\ ~TooDeep
    /\ ppos + Len(kvs) <= Len(tokens)
    /\ \A i \in 1..Len(kvs) :
          /\ tokens[ppos + i].kind = kvs[i][1]
          /\ kvs[i][2] # NoValue => tokens[ppos + i].value = kvs[i][2]

\* the step returns value v from _parse_expr after n tokens
Returns(v, n) ==
    /\ phase' = "parse" /\ ctl' = "ret"
    /\ val' = v
    /\ ppos' = ppos + n
    /\ stack' = stack

\* C13: the tokens list ( ) evaluate to the empty list and the tokens
\* begin end to the empty dictionary, at the top level of a declaration and
\* inside other lists and dictionaries; a program with no declaration (an
\* empty text, or white space and comments only) gives the empty
\* environment, which main prints with status 0.
C13_EmptyValues ==
    [][/\ EvaluatesTokens(<< <<"KW", W_list>>, <<"LPAREN", NoValue>>,
                             <<"RPAREN", NoValue>> >>)
             => Returns(ListV(<<>>), 3)
       /\ EvaluatesTokens(<< <<"KW", W_begin>>, <<"KW", W_end>> >>)
             => Returns(DictV(<<>>), 2)
       /\ OnlyBlanks(text, 0, Len(text)) =>
             /\ phase' \in {"lex", "parse", "returned", "exit"}
             /\ tokens' = <<>> /\ consts' = <<>> /\ err' = NoErr
             /\ phase' = "exit"
                   => rc' = 0 /\ stdout' = <<JsonDump(<<>>), "\n">>]_vars

\* an empty list came back to a dictionary inside a declaration
C13_Witness ==
    /\ phase = "parse" /\ ctl = "ret"
    /\ val = ListV(<<>>)
    /\ Len(stack) = 2 /\ stack[2].f = "dict"

\* an empty dictionary came back to a list inside a declaration
C13_WitnessDict ==
    /\ phase = "parse" /\ ctl = "ret"
    /\ val = DictV(<<>>)
    /\ Len(stack) = 2 /\ stack[2].f = "list"

\* a text of a comment and white space only went through main
C13_WitnessEmptyProgram ==
    /\ phase = "exit" /\ rc = 0
    /\ Len(text) >= 6 /\ tokens = <<>>


\* ---------------------------------------------------------------------
\* C14
\* ---------------------------------------------------------------------

\* the caller has the outcome of the current call of parse_config
CallOver == phase \in {"returned", "raised"}

\* C14: whatever calls of parse_config a process made before, a call on a
\* text ends as every earlier call on the same text ended (the same
\* environment or the same exception), and every call starts with the
\* lexer's cursor at position 0, line 1, column 1, no tokens, and an empty
\* environment.
C14_IndependentInvocations ==
    [][/\ CallOver' =>
             \A i \in 1..Len(log') :
                log'[i].text = text' => log'[i].outcome = Outcome'
       /\ runs' # runs =>
             /\ runs' = runs + 1 /\ CallOver
             /\ pos' = 0 /\ line' = 1 /\ col' = 1
             /\ tokens' = <<>>
             /\ ppos' = 0 /\ consts' = <<>> /\ stack' = <<>>
             /\ phase' = "lex" /\ err' = NoErr]_vars

\* a third call, on the text of the first, after a call on another text
\* that raised; the first and the third returned some constants
C14_Witness ==
    /\ phase = "returned" /\ runs = 3
    /\ consts # <<>>
    /\ log[1].text = text
    /\ log[2].text # text /\ ~log[2].outcome.returned


\* ---------------------------------------------------------------------
\* C15
\* ---------------------------------------------------------------------

\* the step raises the duplicate-constant error
RaisesDuplicate ==
    /\ phase = "parse" /\ phase' = "raised"
    /\ err'.kind = "ParseError" /\ err'.msg = "duplicate constant"

\* the value of the expression of a declaration is about to be bound
AtBinding == ctl = "ret" /\ Len(stack) = 1 /\ stack[1].f = "decl"

\* C15 as claimed: a declaration evaluates its expression first and checks
\* the name for a duplicate only afterwards, when it binds the name, so the
\* duplicate-constant error is raised only with the value of the expression
\* in hand.
C15_ExpressionBeforeDuplicateCheck == [][RaisesDuplicate => AtBinding]_vars

\* C15: a declaration checks its name for a duplicate first, before = and
\* the expression: the duplicate-constant error is raised at the name, with
\* no token of the declaration consumed and whatever follows the name, and
\* no expression of a declaration of a bound name is ever evaluated; so for
\* a bound name with an erroneous expression the error is the
\* duplicate-constant error.
C15_DuplicateCheckBeforeExpression ==
    [][/\ RaisesDuplicate =>
             /\ AtToken /\ ctl = "program" /\ stack = <<>>
             /\ NextTok.kind = "IDENT" /\ DictHas(consts, NextTok.value)
             /\ err'.what = NextTok.value
             /\ ppos' = ppos
       /\ (phase' = "parse" /\ stack' # <<>>) =>
             ~DictHas(consts', stack'[1].name)]_vars

\* the duplicate-constant error for a bound name whose expression is a
\* name that is not bound
C15_Witness ==
    /\ phase = "raised" /\ err.msg = "duplicate constant"
    /\ ppos + 3 <= Len(tokens)
    /\ tokens[ppos + 2].kind = "EQUAL"
    /\ tokens[ppos + 3].kind = "IDENT"
    /\ ~DictHas(consts, tokens[ppos + 3].value)


\* ---------------------------------------------------------------------
\* C16
\* ---------------------------------------------------------------------

\* the parser has not done anything
ParserUntouched ==
    ppos = 0 /\ consts = <<>> /\ stack = <<>> /\ ctl = "program" /\ bound = <<>>

\* C16: a ParseError is raised only for a text that the lexer read to its
\* end without an error; a text with a lexical error anywhere, even after
\* the place of a grammar or semantic error, ends with that LexError, and
\* the parser does not run, neither for such a text nor while the lexer is
\* at work.
C16_LexErrorsPreempt ==
    LET l == LexAll(text)
    IN  /\ l.err # NoErr =>
              /\ phase \in {"lex", "raised", "exit"}
              /\ phase # "lex" => err = l.err /\ err.kind = "LexError"
              /\ ParserUntouched
        /\ err.kind = "ParseError" =>
              /\ l.err = NoErr
              /\ tokens = l.toks
              /\ pos = Len(text)
        /\ phase = "lex" => ParserUntouched /\ err = NoErr

\* the lexer failed after the tokens of a declaration whose expression is a
\* name that no declaration binds
C16_Witness ==
    /\ phase = "raised" /\ err.kind = "LexError"
    /\ Len(tokens) >= 5
    /\ tokens[2].kind = "EQUAL"
    /\ tokens[3].kind = "IDENT" /\ tokens[3].value # tokens[1].value
    /\ ParserUntouched


\* ---------------------------------------------------------------------
\* C17
\* ---------------------------------------------------------------------

\* the names of the declarations among the first p tokens, in order: the
\* identifiers followed by = (a dictionary pair has := after its key)
RECURSIVE NamesUpTo(_)
NamesUpTo(p) ==
    IF p < 2 THEN <<>>
    ELSE IF tokens[p].kind = "EQUAL" /\ tokens[p - 1].kind = "IDENT"
         THEN Append(NamesUpTo(p - 1), tokens[p - 1].value)
         ELSE NamesUpTo(p - 1)

\* the names of the declarations processed to their end: a declaration is in
\* progress while a frame of it is on the stack
ProcessedNames ==
    LET ns == NamesUpTo(ppos)
    IN  IF stack = <<>> THEN ns ELSE SubSeq(ns, 1, Len(ns) - 1)

\* C17: in every state the keys of the environment are exactly the names of
\* the top-level declarations processed to their end, in order: no key of a
\* dictionary literal and not the name of the declaration in progress; a step
\* changes the environment only by adding the one entry of the declaration
\* that ends, leaving the entries before it as they are, and a step that
\* raises adds nothing.
C17_EnvironmentLifecycle ==
    [][/\ Keys(consts') = ProcessedNames'
       /\ stack' # <<>> =>
             /\ stack'[1].f = "decl"
             /\ ~DictHas(consts', stack'[1].name)
             /\ NamesUpTo(ppos')[Len(NamesUpTo(ppos'))] = stack'[1].name
       /\ consts' # consts =>
             /\ AtBinding /\ phase' = "parse"
             /\ consts' = Append(consts, Entry(stack[1].name, val))
       /\ (phase = "parse" /\ AtBinding) => Len(consts') = Len(consts) + 1
       /\ phase' = "raised" => consts' = consts]_vars

\* one declaration is done and the next is inside a dictionary literal that
\* already has a key
C17_Witness ==
    /\ phase = "parse"
    /\ Len(consts) = 1
    /\ Len(stack) = 2 /\ stack[2].f = "dict" /\ stack[2].result # <<>>
    /\ stack[2].result[1].key # consts[1].key


\* ---------------------------------------------------------------------
\* C18
\* ---------------------------------------------------------------------

\* a natural number that every step makes smaller: the characters left
\* while lexing, twice the tokens left plus the open frames while parsing
Measure ==
    CASE phase = "lex" -> 3 * Len(text) + 6 + (Len(text) - pos)
      [] phase = "parse" -> 3 + 2 * (Len(tokens) - ppos) + Len(stack)
      [] phase \in {"returned", "raised"} -> 1
      [] OTHER -> 0

\* C18: parse_config terminates on every input.  A _next_token call ends
\* lexing at the end of the input, raises LexError, or moves the text
\* cursor forward by at least one character and gives one token; a step of
\* the parser raises, ends parse_program, ends the declaration of the
\* program loop's iteration, or consumes at least one token; neither cursor
\* moves backwards or past its end; a returned value has a caller waiting
\* for it; and every step makes a natural number smaller, so no run has
\* more steps than the number it starts with.
C18_Terminates ==
    [][/\ phase = "lex" =>
             \/ phase' = "raised" /\ err'.kind = "LexError"
             \/ phase' = "parse" /\ pos' = Len(text) /\ tokens' = tokens
             \/ /\ phase' = "lex" /\ pos' > pos
                /\ Len(tokens') = Len(tokens) + 1
       /\ phase = "parse" =>
             \/ phase' = "raised"
             \/ phase' = "returned" /\ ppos = Len(tokens)
             \/ phase' = "parse" /\ AtBinding /\ stack' = <<>>
             \/ phase' = "parse" /\ ppos' > ppos
       /\ pos' >= pos /\ pos' <= Len(text)
       /\ ppos' >= ppos /\ ppos' <= Len(tokens')
       /\ (phase' = "parse" /\ ctl' = "ret") => stack' # <<>>
       /\ Measure' < Measure /\ Measure' >= 0]_vars

\* parse_config returned after the lexer skipped a comment and line breaks
\* and the parser went through the program loop
C18_Witness ==
    /\ phase = "returned"
    /\ comments # <<>> /\ line > 2
    /\ pos = Len(text) /\ ppos = Len(tokens)
    /\ Len(consts) >= 1


\* ---------------------------------------------------------------------
\* C19
\* ---------------------------------------------------------------------

\* the grammar symbol of a token: its kind, or the keyword
Sym(tok) ==
    IF tok.kind # "KW" THEN tok.kind
    ELSE IF tok.value = W_list THEN "list"
    ELSE IF tok.value = W_begin THEN "begin"
    ELSE "end"

Nonterminals == {"program", "declaration", "expr", "items", "more", "pairs"}

\* The grammar as a predictive table: the right-hand side that replaces
\* nonterminal nt when the next symbol is la ("$" at the end of the tokens),
\* <<"#">> if no sentence of the grammar goes on with la.
\*   program     := declaration*
\*   declaration := IDENT "=" expr
\*   expr        := NUMBER | IDENT | list_expr | dict_expr
\*   list_expr   := "list" "(" [expr ("," expr)*] ")"
\*   dict_expr   := "begin" dict_pair* "end"
\*   dict_pair   := IDENT ":=" expr ";"
Production(nt, la) ==
    CASE nt = "program" /\ la = "IDENT" -> <<"declaration", "program">>
      [] nt = "program" /\ la = "$" -> <<>>
      [] nt = "declaration" /\ la = "IDENT" -> <<"IDENT", "EQUAL", "expr">>
      [] nt = "expr" /\ la = "NUMBER" -> <<"NUMBER">>
      [] nt = "expr" /\ la = "IDENT" -> <<"IDENT">>
      [] nt = "expr" /\ la = "list" -> <<"list", "LPAREN", "items", "RPAREN">>
      [] nt = "expr" /\ la = "begin" -> <<"begin", "pairs", "end">>
      [] nt = "items" /\ la = "RPAREN" -> <<>>
      [] nt = "items" /\ la \in {"NUMBER", "IDENT", "list", "begin"}
            -> <<"expr", "more">>
      [] nt = "more" /\ la = "COMMA" -> <<"COMMA", "expr", "more">>
      [] nt = "more" /\ la = "RPAREN" -> <<>>
      [] nt = "pairs" /\ la = "IDENT"
            -> <<"IDENT", "ASSIGN", "expr", "SEMICOLON", "pairs">>
      [] nt = "pairs" /\ la = "end" -> <<>>
      [] OTHER -> <<"#">>

\* the run of the table on the symbols from the i-th on, with the symbols
\* still to derive in todo: 0 if the symbols derive, else the index of the
\* first symbol with which no sentence goes on (the length plus one: the
\* symbols end too early)
RECURSIVE Derive(_, _, _)
Derive(todo, syms, i) ==
    LET la == IF i <= Len(syms) THEN syms[i] ELSE "$"
    IN  IF todo = <<>> THEN (IF la = "$" THEN 0 ELSE i)
        ELSE IF Head(todo) \in Nonterminals
        THEN LET rhs == Production(Head(todo), la)
             IN  IF rhs = <<"#">> THEN i
                 ELSE Derive(rhs \o Tail(todo), syms, i)
        ELSE IF Head(todo) = la THEN Derive(Tail(todo), syms, i + 1)
        ELSE i

\* 0 if the tokens are a program of the grammar, else the index of the
\* first offending token
FirstOffending(toks) ==
    Derive(<<"program">>, [i \in 1..Len(toks) |-> Sym(toks[i])], 1)

\* the errors of the evaluation, which a program of the grammar can raise
Semantic(e) ==
    /\ e.kind = "ParseError"
    /\ e.msg \in {"duplicate constant", "duplicate key", "undeclared constant"}

\* the index of the token an error names by its line and column; the length
\* plus one for an error at the end of the tokens
ErrorIndex(toks, e) ==
    IF \E i \in 1..Len(toks) : toks[i].line = e.line /\ toks[i].col = e.col
    THEN CHOOSE i \in 1..Len(toks) : toks[i].line = e.line /\ toks[i].col = e.col
    ELSE Len(toks) + 1

InputEnded(e) ==
    e.msg \in {"expected kind, input ended", "expected end, input ended",
               "expected expression, input ended"}

\* the parser is over
ParserOver ==
    phase \in {"returned", "raised", "exit"} /\ err.kind # "LexError"

\* what the claim says of the outcome of the parser, for the errors in ok
GrammarOutcome(ok) ==
    LET fo == FirstOffending(tokens)
    IN  ParserOver =>
           /\ err = NoErr => fo = 0
           /\ Semantic(err) => fo = 0 \/ ErrorIndex(tokens, err) < fo
           /\ (err # NoErr /\ ~Semantic(err)) =>
                 \/ err.kind \in ok
                 \/ /\ err.kind = "ParseError"
                    /\ fo # 0 /\ ErrorIndex(tokens, err) = fo
                    /\ InputEnded(err) <=> fo = Len(tokens) + 1

\* C19: the parser accepts exactly the grammar.  When the parser is over
\* and no error of the evaluation came first, it returned if and only if
\* the tokens derive from program := declaration*, and otherwise it raised
\* a ParseError at the first offending token, or the input-ended ParseError
\* when the tokens stop where the grammar needs more.
C19_ParserAcceptsGrammar == GrammarOutcome({})

\* the same for every program the call stack has room for
C19_AcceptsGrammarWithinStack == GrammarOutcome({"RecursionError"})

=============================================================================
